---- MODULE Spec2Model ----
(***************************************************************************)
(* A model of seashell (src/main.c): the read / split / execute loop of    *)
(* the shell, its three builtins, and the fork / exec / waitpid protocol   *)
(* between the shell and the child it launches.                            *)
(*                                                                         *)
(* Characters are one-element strings, a C string is a run of characters   *)
(* closed by NUL inside a buffer, and a char* is a 0-based offset into the *)
(* line buffer (the tokens of csh_split_line alias the line).  The build   *)
(* modelled is the default one: nothing defines CSH_USE_STD_GETLINE, so    *)
(* csh_read_line is its #else branch.                                      *)
(***************************************************************************)
EXTENDS Integers, Sequences, FiniteSets, TLC

\* ------------------------------------------------------------ characters
NUL == "\\0"
LF  == "\n"
\* What getchar returns at the end of the stream.
EOF == "EOF"
SP  == " "
TAB == "\t"
CR  == "\r"
BEL == "\\a"
\* What an allocated byte holds before anything is stored in it.
GARBAGE == "?"

\* CSH_TOK_DELIM with the backslash of \t lost: " t\r\n\a".
CSH_TOK_DELIM_typo == {SP, "t", CR, LF, BEL}

\* #define CSH_TOK_DELIM " \t\r\n\a"
CSH_TOK_DELIM == {SP, TAB, CR, LF, BEL}

CSH_RL_BUFSIZE == 1024
CSH_TOK_BUFSIZE == 64
EXIT_SUCCESS == 0
EXIT_FAILURE == 1
\* The null pointer, as an offset no token can have.
NULL == -1

\* ------------------------------------------------------------ the words
w_cd   == <<"c", "d">>
w_help == <<"h", "e", "l", "p">>
w_exit == <<"e", "x", "i", "t">>
w_ls   == <<"l", "s">>
w_tmp  == <<"/", "t", "m", "p">>
w_priv == <<"/", "p", "r", "i", "v">>

\* char *builtin_str[] = { "cd", "help", "exit" }
builtin_str == <<w_cd, w_help, w_exit>>
csh_num_builtins == Len(builtin_str)

\* ------------------------------------------------------------ bounds
\* A command line is at most MaxPieces pieces long.
MaxPieces == 3
\* The process table has room for MaxChildren children of the shell.
MaxChildren == 2

\* ------------------------------------------------------------ memory
\* buf[i] = c on a block held as the sequence of its first bytes: byte i
\* (0-based) becomes c, and bytes between the old end and i are GARBAGE.
Store(buf, i, c) ==
    IF i = Len(buf) THEN Append(buf, c)
    ELSE IF i < Len(buf) THEN [buf EXCEPT ![i + 1] = c]
    ELSE [j \in 1..(i + 1) |->
            IF j = i + 1 THEN c ELSE IF j <= Len(buf) THEN buf[j] ELSE GARBAGE]

\* The least element of a set of integers.
Min(S) == CHOOSE x \in S : \A y \in S : x <= y

\* The end (0-based offset of the closing NUL) of the C string at offset p.
StrEnd(buf, p) == Min({q \in p..(Len(buf) - 1) : buf[q + 1] = NUL})

\* The C string at offset p of buf, without its closing NUL.
CStr(buf, p) == SubSeq(buf, p + 1, StrEnd(buf, p))

\* ------------------------------------------------------------ strtok
\* SkipDelims without the scan: a tokenizer that cuts at every delimiter.
SkipDelims_none(buf, p) == p

\* p + strspn(p, delim): the first offset from p on that holds no delimiter.
SkipDelims(buf, p) == Min({q \in p..(Len(buf) - 1) : buf[q + 1] \notin CSH_TOK_DELIM})

\* p + strcspn(p, delim): the first offset from p on that holds a delimiter or
\* the closing NUL.
ScanToken(buf, p) ==
    Min({q \in p..(Len(buf) - 1) : buf[q + 1] = NUL \/ buf[q + 1] \in CSH_TOK_DELIM})

\* One call of strtok, resuming at offset p: the token found (or NULL), the
\* buffer with the delimiter that closed the token overwritten by NUL, and the
\* offset the next call resumes at.
strtok(buf, p) ==
    LET s == SkipDelims(buf, p)
        e == ScanToken(buf, s)
    IN  IF buf[s + 1] = NUL
        THEN [token |-> NULL, buf |-> buf, save |-> s]
        ELSE IF buf[e + 1] = NUL
        THEN [token |-> s, buf |-> buf, save |-> e]
        ELSE [token |-> s, buf |-> [buf EXCEPT ![e + 1] = NUL], save |-> e + 1]

\* The growth test with > for >=: the buffer grows one write too late.
LineFull_offByOne(pos, size) == pos > size

\* if (position >= bufsize), the test that grows the line buffer.
LineFull(pos, size) == pos >= size

\* if (position >= bufsize), the test that grows the token array.
TokensFull(pos, size) == pos >= size

\* ------------------------------------------------------------ the operating system
\* chdir(path): 0 and the new directory, or -1 and errno.
ExistingDirs == {w_tmp}
chdir(path) ==
    IF path \in ExistingDirs THEN "0"
    ELSE IF path = w_priv THEN "EACCES"
    ELSE "ENOENT"

\* execvp(file, argv): the programs it finds and can run.
Programs == {w_ls}
execvp(file) ==
    IF file \in Programs THEN "0"
    ELSE IF file \in {w_tmp, w_priv} THEN "EACCES"
    ELSE "ENOENT"

\* The slots of the process table, and what a free slot holds.
Pids == 1..MaxChildren
NoChild == [state |-> "none", image |-> "none", cpc |-> "none", stopPending |-> FALSE,
            cwd |-> <<>>, file |-> <<>>, argv |-> <<>>, code |-> 0]

\* One entry of the record of what an iteration of the loop did to the
\* outside: a write to a stream, or a system call and its result.
Ev(op, who, arg, res) == [op |-> op, who |-> who, arg |-> arg, res |-> res]

\* ------------------------------------------------------------ the input
\* The long piece: CSH_TOK_BUFSIZE one-letter words, each followed by a space.
BigRun == [i \in 1..(2 * CSH_TOK_BUFSIZE) |-> IF i % 2 = 1 THEN "a" ELSE SP]

\* A command with two arguments, typed in one go: ls -la /tmp
ls_la_tmp == w_ls \o <<SP, "-", "l", "a", SP>> \o w_tmp

\* A line that fills the first buffer of csh_read_line exactly.
FullBuffer == [i \in 1..CSH_RL_BUFSIZE |-> "a"]

\* Names that are close to a builtin's: another case, and a prefix; the
\* prefix typed as a command with an argument: "c /tmp".
w_CD == <<"C", "D">>
w_c == <<"c">>
c_tmp == w_c \o <<SP>> \o w_tmp

\* The start of a cd with more than one argument: "cd /tmp " and "cd /priv ".
cd_tmp_ == w_cd \o <<SP>> \o w_tmp \o <<SP>>
cd_priv_ == w_cd \o <<SP>> \o w_priv \o <<SP>>

\* What the user types is put together from these pieces; a line is at most
\* MaxPieces of them, and a long one or a start comes first or not at all and
\* counts as two.
ShortPieces == {w_cd, w_help, w_exit, w_ls, w_tmp, w_priv,
                <<SP>>, <<TAB, CR, BEL>>, <<NUL>>}
LongPieces == {BigRun, ls_la_tmp, FullBuffer}
StartPieces == {w_CD, c_tmp, cd_tmp_, cd_priv_}
PiecesAt(n) == IF n = 0 THEN ShortPieces \cup LongPieces \cup StartPieces ELSE ShortPieces
Weight(p) == IF p \in ShortPieces THEN 1 ELSE 2

\* Standard input before anything of a line has been typed.
NoInput == [pending |-> <<>>, npieces |-> 0, eof |-> FALSE]

\* getchar() on the stream in: the characters it can return, each with the
\* stream it leaves.
Getchar(in) ==
    IF in.pending # <<>>
    THEN {[c |-> Head(in.pending), in |-> [in EXCEPT !.pending = Tail(@)]]}
    ELSE {[c |-> LF, in |-> NoInput], [c |-> EOF, in |-> [NoInput EXCEPT !.eof = TRUE]]}
         \cup {[c |-> Head(p), in |-> [in EXCEPT !.pending = Tail(p),
                                                !.npieces = @ + Weight(p)]] :
                  p \in {q \in PiecesAt(in.npieces) : in.npieces + Weight(q) <= MaxPieces}}

\* ------------------------------------------------------------ the builtins
\* csh_cd returning 0 when chdir fails.
csh_cd_failStops(ln, a, dir) ==
    IF a[2] = NULL
    THEN [ret |-> 1, cwd |-> dir,
          ev |-> <<Ev("write", "shell", <<"lsh: cd: missing argument">>, "stderr")>>]
    ELSE LET path == CStr(ln, a[2])
             r    == chdir(path)
         IN  IF r # "0"
             THEN [ret |-> 0, cwd |-> dir,
                   ev |-> <<Ev("chdir", "shell", path, r),
                            Ev("write", "shell", <<"lsh", r>>, "stderr")>>]
             ELSE [ret |-> 1, cwd |-> path, ev |-> <<Ev("chdir", "shell", path, r)>>]

\* csh_cd refusing more than one argument.
csh_cd_tooManyArguments(ln, a, dir) ==
    IF a[2] = NULL
    THEN [ret |-> 1, cwd |-> dir,
          ev |-> <<Ev("write", "shell", <<"lsh: cd: missing argument">>, "stderr")>>]
    ELSE IF a[3] # NULL
    THEN [ret |-> 1, cwd |-> dir,
          ev |-> <<Ev("write", "shell", <<"lsh: cd: too many arguments">>, "stderr")>>]
    ELSE LET path == CStr(ln, a[2])
             r    == chdir(path)
         IN  IF r # "0"
             THEN [ret |-> 1, cwd |-> dir,
                   ev |-> <<Ev("chdir", "shell", path, r),
                            Ev("write", "shell", <<"lsh", r>>, "stderr")>>]
             ELSE [ret |-> 1, cwd |-> path, ev |-> <<Ev("chdir", "shell", path, r)>>]

\* csh_cd going to the root directory when it has no argument.
csh_cd_homeDefault(ln, a, dir) ==
    LET path == IF a[2] = NULL THEN <<"/">> ELSE CStr(ln, a[2])
        r    == IF a[2] = NULL THEN "0" ELSE chdir(path)
    IN  IF r # "0"
        THEN [ret |-> 1, cwd |-> dir,
              ev |-> <<Ev("chdir", "shell", path, r),
                       Ev("write", "shell", <<"lsh", r>>, "stderr")>>]
        ELSE [ret |-> 1, cwd |-> path, ev |-> <<Ev("chdir", "shell", path, r)>>]

\* csh_cd without the perror when chdir fails.
csh_cd_silent(ln, a, dir) ==
    IF a[2] = NULL
    THEN [ret |-> 1, cwd |-> dir,
          ev |-> <<Ev("write", "shell", <<"lsh: cd: missing argument">>, "stderr")>>]
    ELSE LET path == CStr(ln, a[2])
             r    == chdir(path)
         IN  [ret |-> 1, cwd |-> IF r = "0" THEN path ELSE dir,
              ev |-> <<Ev("chdir", "shell", path, r)>>]

\* int csh_cd(char **args), run with the line buffer ln and the working
\* directory dir: the value returned, the working directory afterwards, and
\* what it did to the outside.
csh_cd(ln, a, dir) ==
    IF a[2] = NULL
    THEN [ret |-> 1, cwd |-> dir,
          ev |-> <<Ev("write", "shell", <<"lsh: cd: missing argument">>, "stderr")>>]
    ELSE LET path == CStr(ln, a[2])
             r    == chdir(path)
         IN  IF r # "0"
             THEN [ret |-> 1, cwd |-> dir,
                   ev |-> <<Ev("chdir", "shell", path, r),
                            Ev("write", "shell", <<"lsh", r>>, "stderr")>>]
             ELSE [ret |-> 1, cwd |-> path, ev |-> <<Ev("chdir", "shell", path, r)>>]

\* int csh_help(char **args)
csh_help(ln, a, dir) ==
    [ret |-> 1, cwd |-> dir,
     ev |-> <<Ev("write", "shell", <<"Ishan Leung's C Shell">>, "stdout"),
              Ev("write", "shell",
                 <<"Type program names and arguments, and press the enter key.">>,
                 "stdout"),
              Ev("write", "shell", <<"The following are built-in commands:">>, "stdout")>>
            \o [i \in 1..csh_num_builtins |->
                    Ev("write", "shell", builtin_str[i], "stdout")]
            \o <<Ev("write", "shell",
                    <<"Use the man command for info on other programs. ">>, "stdout")>>]

\* csh_exit taking an argument for an exit code it cannot use, and going on.
csh_exit_withArgContinues(ln, a, dir) ==
    [ret |-> IF a[2] = NULL THEN 0 ELSE 1, cwd |-> dir, ev |-> <<>>]

\* int csh_exit(char **args)
csh_exit(ln, a, dir) == [ret |-> 0, cwd |-> dir, ev |-> <<>>]

\* int (*builtin_func[]) (char **) = { &csh_cd, &csh_help, &csh_exit }
builtin_func == <<"csh_cd", "csh_help", "csh_exit">>

\* A comparison that stops at the end of a, as strncmp(a, b, strlen(a)) == 0.
StrEq_prefix(a, b) == Len(a) <= Len(b) /\ SubSeq(b, 1, Len(a)) = a

\* strcmp(a, b) == 0
StrEq(a, b) == a = b

\* The for loop of csh_execute: the index (1-based) of the first builtin whose
\* name equals `name`, 0 when the loop runs out.
RECURSIVE FindBuiltin(_, _)
FindBuiltin(name, i) ==
    IF i > csh_num_builtins THEN 0
    ELSE IF StrEq(name, builtin_str[i]) THEN i
    ELSE FindBuiltin(name, i + 1)

\* if (args[0] == NULL), the test for an empty command in csh_execute.
IsEmptyCommand(a) == a[1] = NULL

\* What csh_execute calls for the token vector a over the line ln: nothing
\* ("empty"), the builtin handler of that name, or csh_launch.
Dispatch(ln, a) ==
    IF IsEmptyCommand(a) THEN "empty"
    ELSE LET i == FindBuiltin(CStr(ln, a[1]), 1)
         IN  IF i = 0 THEN "csh_launch" ELSE builtin_func[i]

\* (*builtin_func[i])(args)
CallBuiltin(f, ln, a, dir) ==
    IF f = "csh_cd" THEN csh_cd(ln, a, dir)
    ELSE IF f = "csh_help" THEN csh_help(ln, a, dir)
    ELSE csh_exit(ln, a, dir)

\* The argument vector as strings: args[0] .. up to the closing NULL.
Argv(ln, a) == [i \in 1..(Len(a) - 1) |-> CStr(ln, a[i])]

\* ------------------------------------------------------------ waitpid
WIFEXITED(st) == st = "exited"
WIFSIGNALED(st) == st = "signaled"
\* The loop leaving only on a child that exited: while (!WIFEXITED(status)).
WaitDone_onlyExited(st) == WIFEXITED(st)

\* The loop leaving on a stop as well.
WaitDone_stopIsDone(st) == st \in {"exited", "signaled", "stopped"}

\* One waitpid and no loop.
WaitDone_noLoop(st) == TRUE

\* The negation of the do-while condition !WIFEXITED(status) && !WIFSIGNALED(status).
WaitDone(st) == WIFEXITED(st) \/ WIFSIGNALED(st)

\* ------------------------------------------------------------ the state
VARIABLES
    pc,          \* where the shell process is: "prompt", "read_line", "getchar",
                 \* "split_line", "strtok", "execute", "waitpid", "wait_check",
                 \* "free", "exited"
    exitCode,    \* the exit code of the shell process, -1 while it runs
    stdin,       \* standard input: what is typed of the current line and not read yet
    line,        \* the line buffer: the bytes stored in it so far
    typed,       \* the line buffer as csh_read_line returned it (strtok writes to line)
    args,        \* the token array: offsets into line, closed by NULL
    heap,        \* which of the two blocks are allocated
    position,    \* the local position of csh_read_line and of csh_split_line
    bufsize,     \* the local bufsize of csh_read_line and of csh_split_line
    token,       \* the local token of csh_split_line
    saveptr,     \* where strtok(NULL, ...) resumes
    status,      \* csh_loop's status
    cwd,         \* the working directory of the shell process
    children,    \* the process table: the shell's children by pid
    pid,         \* csh_launch's pid, 0 outside csh_launch
    wstatus,     \* csh_launch's status, as waitpid left it
    events       \* what this iteration did to the outside so far

vars == <<pc, exitCode, stdin, line, typed, args, heap, position, bufsize, token,
          saveptr, status, cwd, children, pid, wstatus, events>>

\* The locals of csh_read_line and csh_split_line.
locals == <<position, bufsize, token, saveptr>>
\* The memory csh_loop owns.
memory == <<line, typed, args, heap>>
\* The locals of csh_launch and the process table.
launch == <<children, pid, wstatus>>

w_root == <<"/">>

Init ==
    /\ pc = "prompt"
    /\ exitCode = -1
    /\ stdin = NoInput
    /\ line = <<>>
    /\ typed = <<>>
    /\ args = <<>>
    /\ heap = {}
    /\ position = 0
    /\ bufsize = 0
    /\ token = NULL
    /\ saveptr = 0
    /\ status = 1
    /\ cwd = w_root
    /\ children = [p \in Pids |-> NoChild]
    /\ pid = 0
    /\ wstatus = "uninit"
    /\ events = <<>>

\* The allocation error reported, and the process ending as a success.
AllocationError_exitsSuccess ==
    /\ pc' = "exited"
    /\ exitCode' = EXIT_SUCCESS
    /\ events' = Append(events, Ev("write", "shell", <<"lsh: allocation error">>, "stderr"))

\* fprintf(stderr, "lsh: allocation error\n"); exit(EXIT_FAILURE);
AllocationError ==
    /\ pc' = "exited"
    /\ exitCode' = EXIT_FAILURE
    /\ events' = Append(events, Ev("write", "shell", <<"lsh: allocation error">>, "stderr"))

\* ------------------------------------------------------------ csh_loop
\* printf("> ")
Prompt ==
    /\ pc = "prompt"
    /\ pc' = "read_line"
    /\ events' = <<Ev("write", "shell", <<"> ">>, "stdout")>>
    /\ UNCHANGED <<exitCode, stdin, memory, locals, status, cwd, launch>>

\* ------------------------------------------------------------ csh_read_line
\* The entry of csh_read_line: bufsize, position, and the malloc of the buffer.
ReadLineBegin ==
    /\ pc = "read_line"
    /\ bufsize' = CSH_RL_BUFSIZE
    /\ position' = 0
    /\ \/ /\ line' = <<>>
          /\ heap' = heap \cup {"line"}
          /\ pc' = "getchar"
          /\ UNCHANGED <<exitCode, events>>
       \/ /\ AllocationError
          /\ UNCHANGED <<line, heap>>
    /\ UNCHANGED <<stdin, typed, args, token, saveptr, status, cwd, launch>>

\* End of input taken as the end of the line: the buffer is terminated and
\* returned.
EndOfInput_returnsLine ==
    /\ line' = Store(line, position, NUL)
    /\ typed' = line'
    /\ pc' = "split_line"
    /\ UNCHANGED <<exitCode, position, bufsize, events>>

\* if (c == EOF) exit(EXIT_SUCCESS);
EndOfInput ==
    /\ pc' = "exited"
    /\ exitCode' = EXIT_SUCCESS
    /\ UNCHANGED <<line, typed, position, bufsize, events>>

\* One turn of the while (1) loop of csh_read_line.
ReadChar ==
    /\ pc = "getchar"
    /\ \E g \in Getchar(stdin) :
          /\ stdin' = g.in
          /\ IF g.c = EOF
             THEN EndOfInput
             ELSE IF g.c = LF
             THEN /\ line' = Store(line, position, NUL)
                  /\ typed' = line'
                  /\ pc' = "split_line"
                  /\ UNCHANGED <<exitCode, position, bufsize, events>>
             ELSE /\ line' = Store(line, position, g.c)
                  /\ position' = position + 1
                  /\ IF LineFull(position + 1, bufsize)
                     THEN \/ /\ bufsize' = bufsize + CSH_RL_BUFSIZE
                             /\ pc' = "getchar"
                             /\ UNCHANGED <<exitCode, events>>
                          \/ /\ AllocationError
                             /\ UNCHANGED bufsize
                     ELSE /\ pc' = "getchar"
                          /\ UNCHANGED <<exitCode, bufsize, events>>
                  /\ UNCHANGED typed
    /\ UNCHANGED <<args, heap, token, saveptr, status, cwd, launch>>

\* ------------------------------------------------------------ csh_split_line
\* The entry of csh_split_line: the malloc of the token array and the first
\* strtok(line, CSH_TOK_DELIM).
SplitLineBegin ==
    /\ pc = "split_line"
    /\ bufsize' = CSH_TOK_BUFSIZE
    /\ position' = 0
    /\ \/ /\ LET tk == strtok(line, 0)
             IN  /\ token' = tk.token
                 /\ line' = tk.buf
                 /\ saveptr' = tk.save
          /\ args' = <<>>
          /\ heap' = heap \cup {"args"}
          /\ pc' = "strtok"
          /\ UNCHANGED <<exitCode, events>>
       \/ /\ AllocationError
          /\ UNCHANGED <<line, args, heap, token, saveptr>>
    /\ UNCHANGED <<stdin, typed, status, cwd, launch>>

\* One turn of the while (token != NULL) loop of csh_split_line, or, when the
\* loop ends, tokens[position] = NULL and the return, where the locals go out
\* of scope (they are set to 0 then).
SplitToken ==
    /\ pc = "strtok"
    /\ IF token # NULL
       THEN /\ args' = Store(args, position, token)
            /\ position' = position + 1
            /\ IF TokensFull(position + 1, bufsize)
               THEN \/ /\ bufsize' = bufsize + CSH_TOK_BUFSIZE
                       /\ UNCHANGED <<exitCode, events>>
                       /\ LET tk == strtok(line, saveptr)
                          IN  /\ token' = tk.token
                              /\ line' = tk.buf
                              /\ saveptr' = tk.save
                       /\ pc' = "strtok"
                    \/ /\ AllocationError
                       /\ UNCHANGED <<bufsize, token, line, saveptr>>
               ELSE /\ LET tk == strtok(line, saveptr)
                       IN  /\ token' = tk.token
                           /\ line' = tk.buf
                           /\ saveptr' = tk.save
                    /\ pc' = "strtok"
                    /\ UNCHANGED <<exitCode, bufsize, events>>
       ELSE /\ args' = Store(args, position, NULL)
            /\ pc' = "execute"
            /\ position' = 0
            /\ bufsize' = 0
            /\ saveptr' = 0
            /\ UNCHANGED <<exitCode, line, token, events>>
    /\ UNCHANGED <<stdin, typed, heap, status, cwd, launch>>

\* ------------------------------------------------------------ csh_execute
\* csh_execute returning 0 for an empty command.
ExecuteEmpty_returns0 ==
    /\ pc = "execute"
    /\ Dispatch(line, args) = "empty"
    /\ status' = 0
    /\ pc' = "free"
    /\ UNCHANGED <<exitCode, stdin, memory, locals, cwd, launch, events>>

\* status = csh_execute(args), for an empty command: return 1.
ExecuteEmpty ==
    /\ pc = "execute"
    /\ Dispatch(line, args) = "empty"
    /\ status' = 1
    /\ pc' = "free"
    /\ UNCHANGED <<exitCode, stdin, memory, locals, cwd, launch, events>>

\* status = csh_execute(args), for a builtin: return (*builtin_func[i])(args).
ExecuteBuiltin ==
    /\ pc = "execute"
    /\ Dispatch(line, args) \in {builtin_func[i] : i \in 1..csh_num_builtins}
    /\ LET r == CallBuiltin(Dispatch(line, args), line, args, cwd)
       IN  /\ status' = r.ret
           /\ cwd' = r.cwd
           /\ events' = events \o r.ev
    /\ pc' = "free"
    /\ UNCHANGED <<exitCode, stdin, memory, locals, launch>>

\* ------------------------------------------------------------ csh_launch
\* The pid fork() gives the child: the lowest free slot of the process table.
FreePid == Min({p \in Pids : children[p].state = "none"})

\* csh_execute reaching csh_launch, and fork() making a child, which starts
\* in the pid == 0 branch with a copy of the shell's memory.
LaunchFork ==
    /\ pc = "execute"
    /\ Dispatch(line, args) = "csh_launch"
    /\ \E p \in Pids : children[p].state = "none"
    /\ children' = [children EXCEPT ![FreePid] =
           [state |-> "running", image |-> "shell", cpc |-> "execvp",
            stopPending |-> FALSE, cwd |-> cwd, file |-> CStr(line, args[1]),
            argv |-> Argv(line, args), code |-> 0]]
    /\ pid' = FreePid
    /\ wstatus' = "uninit"
    /\ events' = Append(events, Ev("fork", "shell", <<>>, "0"))
    /\ pc' = "waitpid"
    /\ UNCHANGED <<exitCode, stdin, memory, locals, status, cwd>>

\* fork() failing and csh_launch returning 0, which ends the loop.
LaunchForkFail_returns0 ==
    /\ pc = "execute"
    /\ Dispatch(line, args) = "csh_launch"
    /\ events' = events \o <<Ev("fork", "shell", <<>>, "EAGAIN"),
                              Ev("write", "shell", <<"lsh", "EAGAIN">>, "stderr")>>
    /\ status' = 0
    /\ pc' = "free"
    /\ UNCHANGED <<exitCode, stdin, memory, locals, cwd, launch>>

\* csh_execute reaching csh_launch, and fork() failing: perror and return 1.
LaunchForkFail ==
    /\ pc = "execute"
    /\ Dispatch(line, args) = "csh_launch"
    /\ events' = events \o <<Ev("fork", "shell", <<>>, "EAGAIN"),
                              Ev("write", "shell", <<"lsh", "EAGAIN">>, "stderr")>>
    /\ status' = 1
    /\ pc' = "free"
    /\ UNCHANGED <<exitCode, stdin, memory, locals, cwd, launch>>

\* waitpid(pid, &status, WUNTRACED) returning: the child has ended and is reaped,
\* or it has stopped and the stop has not been reported yet.
Waitpid ==
    /\ pc = "waitpid"
    /\ LET c == children[pid]
       IN  \/ /\ c.state \in {"exited", "signaled"}
              /\ wstatus' = c.state
              /\ children' = [children EXCEPT ![pid] = NoChild]
           \/ /\ c.state = "stopped"
              /\ c.stopPending
              /\ wstatus' = "stopped"
              /\ children' = [children EXCEPT ![pid].stopPending = FALSE]
    /\ pc' = "wait_check"
    /\ UNCHANGED <<exitCode, stdin, memory, locals, status, cwd, pid, events>>

\* while (!WIFEXITED(status) && !WIFSIGNALED(status)); return 1;
WaitCheck ==
    /\ pc = "wait_check"
    /\ IF WaitDone(wstatus)
       THEN /\ status' = 1
            /\ pid' = 0
            /\ wstatus' = "uninit"
            /\ pc' = "free"
       ELSE /\ pc' = "waitpid"
            /\ UNCHANGED <<status, pid, wstatus>>
    /\ UNCHANGED <<exitCode, stdin, memory, locals, cwd, children, events>>

\* The end of the loop body without its free(args).
LoopEnd_leaksArgs ==
    /\ pc = "free"
    /\ line' = <<>>
    /\ typed' = <<>>
    /\ args' = <<>>
    /\ heap' = heap \ {"line"}
    /\ IF status # 0
       THEN pc' = "prompt" /\ UNCHANGED exitCode
       ELSE pc' = "exited" /\ exitCode' = EXIT_SUCCESS
    /\ UNCHANGED <<stdin, locals, status, cwd, launch, events>>

\* free(line); free(args); while (status); and main's return EXIT_SUCCESS.
LoopEnd ==
    /\ pc = "free"
    /\ line' = <<>>
    /\ typed' = <<>>
    /\ args' = <<>>
    /\ heap' = heap \ {"line", "args"}
    /\ IF status # 0
       THEN pc' = "prompt" /\ UNCHANGED exitCode
       ELSE pc' = "exited" /\ exitCode' = EXIT_SUCCESS
    /\ UNCHANGED <<stdin, locals, status, cwd, launch, events>>

\* ------------------------------------------------------------ the child
\* What the shell process does not change when only a child moves.
shell == <<pc, exitCode, stdin, memory, locals, status, cwd, pid, wstatus>>

\* execvp(args[0], args) in the child: the program takes over, or it returns -1.
ChildExecvp(p) ==
    /\ children[p].state = "running"
    /\ children[p].cpc = "execvp"
    /\ children' = [children EXCEPT ![p] =
           IF execvp(@.file) = "0"
           THEN [@ EXCEPT !.image = "prog", !.cpc = "main"]
           ELSE [@ EXCEPT !.cpc = "perror"]]
    /\ UNCHANGED <<shell, events>>

\* perror("lsh") in the child.
ChildPerror(p) ==
    /\ children[p].state = "running"
    /\ children[p].cpc = "perror"
    /\ events' = Append(events,
                        Ev("write", "child", <<"lsh", execvp(children[p].file)>>, "stderr"))
    /\ children' = [children EXCEPT ![p].cpc = "exit"]
    /\ UNCHANGED shell

\* The child without its exit(EXIT_FAILURE): it leaves the if and goes on
\* into the shell's own code, as a second shell.
ChildExit_returns(p) ==
    /\ children[p].state = "running"
    /\ children[p].cpc = "exit"
    /\ children' = [children EXCEPT ![p].cpc = "return"]
    /\ UNCHANGED <<shell, events>>

\* exit(EXIT_FAILURE) in the child.
ChildExit(p) ==
    /\ children[p].state = "running"
    /\ children[p].cpc = "exit"
    /\ children' = [children EXCEPT ![p].state = "exited", ![p].cpc = "done",
                                    ![p].code = EXIT_FAILURE]
    /\ UNCHANGED <<shell, events>>

\* The program the child became ends by itself, with some exit code.
ProgExit(p) ==
    /\ children[p].state = "running"
    /\ children[p].cpc = "main"
    /\ \E c \in {EXIT_SUCCESS, EXIT_FAILURE} :
          children' = [children EXCEPT ![p].state = "exited", ![p].cpc = "done",
                                       ![p].code = c]
    /\ UNCHANGED <<shell, events>>

\* A stop signal (SIGSTOP, SIGTSTP) reaches the child.
ChildStop(p) ==
    /\ children[p].state = "running"
    /\ children' = [children EXCEPT ![p].state = "stopped", ![p].stopPending = TRUE]
    /\ UNCHANGED <<shell, events>>

\* SIGCONT reaches the stopped child.
ChildCont(p) ==
    /\ children[p].state = "stopped"
    /\ children' = [children EXCEPT ![p].state = "running", ![p].stopPending = FALSE]
    /\ UNCHANGED <<shell, events>>

\* A signal that kills (SIGKILL, SIGINT, ...) reaches the child.
ChildKill(p) ==
    /\ children[p].state \in {"running", "stopped"}
    /\ children' = [children EXCEPT ![p].state = "signaled", ![p].cpc = "done",
                                    ![p].stopPending = FALSE]
    /\ UNCHANGED <<shell, events>>

Next ==
    \/ Prompt
    \/ ReadLineBegin
    \/ ReadChar
    \/ SplitLineBegin
    \/ SplitToken
    \/ ExecuteEmpty
    \/ ExecuteBuiltin
    \/ LaunchFork
    \/ LaunchForkFail
    \/ Waitpid
    \/ WaitCheck
    \/ LoopEnd
    \/ \E p \in Pids :
          \/ ChildExecvp(p)
          \/ ChildPerror(p)
          \/ ChildExit(p)
          \/ ProgExit(p)
          \/ ChildStop(p)
          \/ ChildCont(p)
          \/ ChildKill(p)

Spec == Init /\ [][Next]_vars

\* The shell process gets to run: a waitpid that can return does return, and
\* the statements after it are executed. Nothing is asked of the children or
\* of the user.
LiveSpec ==
    /\ Init
    /\ [][Next]_vars
    /\ WF_vars(Waitpid \/ WaitCheck \/ LoopEnd)

\* ------------------------------------------------------------ the properties
\* The delimiters of a command line: space, tab, carriage return, newline, bell.
Delimiters == {" ", "\t", "\r", "\n", "\\a"}

\* The first token of the command being dispatched is the word w.
FirstTokenIs(w) == args # <<>> /\ args[1] # NULL /\ CStr(line, args[1]) = w

\* The children that are alive: running or stopped, not yet ended.
Alive == {p \in Pids : children[p].state \in {"running", "stopped"}}

\* The shell is inside csh_launch, after a fork that succeeded.
InLaunch == pc \in {"waitpid", "wait_check"}

\* C1: the shell leaves csh_launch after a successful fork only on a wait
\* result that says the child exited or was killed by a signal, the child
\* being gone by then; on a wait result that says the child stopped it calls
\* waitpid again, on the same child.
C1_ReturnOnlyAfterTermination ==
    [][ /\ (InLaunch /\ ~InLaunch') =>
              /\ pc = "wait_check"
              /\ wstatus \in {"exited", "signaled"}
              /\ children[pid].state = "none"
        /\ (pc = "wait_check" /\ wstatus = "stopped" /\ pc' # pc) =>
              /\ pc' = "waitpid"
              /\ pid' = pid
              /\ children'[pid].state \in {"running", "stopped", "exited", "signaled"}
      ]_vars

\* The shell waits again after it was told that the child stopped.
C1_Witness ==
    /\ pc = "waitpid"
    /\ wstatus = "stopped"
    /\ children[pid].state = "stopped"
    /\ ~children[pid].stopPending

\* C2: at most one child of the shell is alive at any time, and none is
\* while the shell is about to prompt or is reading a line.
C2_OneChildAndNoPromptBeforeItEnds ==
    /\ Cardinality(Alive) <= 1
    /\ pc \in {"prompt", "read_line", "getchar"} => Alive = {}

\* A launched program runs while the shell is blocked in waitpid.
C2_Witness ==
    /\ pc = "waitpid"
    /\ \E p \in Pids : children[p].state = "running" /\ children[p].image = "prog"

\* C3: dispatching a command whose first token is exit gives status 0
\* whatever follows, makes no child and leaves the working directory alone;
\* and with status 0 the loop ends without another read and the process ends
\* with exit code 0.
C3_ExitTerminates ==
    [][ /\ (pc = "execute" /\ FirstTokenIs(w_exit)) =>
              /\ status' = 0
              /\ pc' = "free"
              /\ UNCHANGED <<cwd, children, events>>
        /\ (pc = "free" /\ status = 0) =>
              /\ pc' = "exited"
              /\ exitCode' = 0
      ]_vars

\* exit followed by more tokens has been dispatched and gave 0.
C3_Witness ==
    /\ pc = "free"
    /\ FirstTokenIs(w_exit)
    /\ Len(args) > 2
    /\ status = 0

\* The last thing written was the allocation error message.
AllocationFailed(ev) ==
    /\ ev # <<>>
    /\ ev[Len(ev)] = Ev("write", "shell", <<"lsh: allocation error">>, "stderr")

\* C4: apart from an allocation failure, the shell process ends only from a
\* dispatched exit (status 0, exit code 0) or at the end of the input (in
\* getchar, exit code 0); a dispatch of anything else returns a non-zero
\* status, after which the loop frees the line and prompts again.
C4_RunningUntilExitOrEndOfInput ==
    [][ /\ (pc # "exited" /\ pc' = "exited") =>
              \/ exitCode' = EXIT_FAILURE /\ AllocationFailed(events')
              \/ pc = "getchar" /\ exitCode' = EXIT_SUCCESS /\ events' = events
              \/ pc = "free" /\ FirstTokenIs(w_exit) /\ exitCode' = EXIT_SUCCESS
        /\ (pc \in {"execute", "wait_check"} /\ pc' = "free" /\ ~FirstTokenIs(w_exit)) =>
              status' # 0
        /\ (pc = "execute" /\ pc' # pc) => pc' \in {"free", "waitpid"}
        /\ (pc = "free" /\ ~FirstTokenIs(w_exit)) => pc' = "prompt"
      ]_vars

\* The child of the last command could not run its program and said so; the
\* shell is back at the prompt.
C4_Witness ==
    /\ pc = "prompt"
    /\ \E i \in 1..Len(events) :
          events[i] = Ev("write", "child", <<"lsh", "ENOENT">>, "stderr")

\* C5: dispatching cd with no argument writes an error to standard error,
\* returns 1, calls no chdir and leaves the working directory as it was.
C5_CdWithoutArgument ==
    [][ (pc = "execute" /\ FirstTokenIs(w_cd) /\ args[2] = NULL) =>
              /\ status' = 1
              /\ pc' = "free"
              /\ cwd' = cwd
              /\ Len(events') = Len(events) + 1
              /\ SubSeq(events', 1, Len(events)) = events
              /\ events'[Len(events')].op = "write"
              /\ events'[Len(events')].res = "stderr"
      ]_vars

\* cd without an argument has been dispatched in /tmp, and the shell is
\* still there.
C5_Witness ==
    /\ pc = "free"
    /\ FirstTokenIs(w_cd)
    /\ args[2] = NULL
    /\ cwd = w_tmp
    /\ status = 1

\* What a dispatch added to the record of the iteration.
Added(before, after) == SubSeq(after, Len(before) + 1, Len(after))

\* C6: dispatching cd p returns 1; when the system refuses p the working
\* directory stays and the system's error is written to standard error; when
\* it accepts p the working directory is p and nothing is written.
C6_CdWithArgument ==
    [][ (pc = "execute" /\ FirstTokenIs(w_cd) /\ args[2] # NULL) =>
          LET p     == CStr(line, args[2])
              added == Added(events, events')
              wrote == {i \in 1..Len(added) : added[i].op = "write"}
          IN  /\ status' = 1
              /\ pc' = "free"
              /\ SubSeq(events', 1, Len(events)) = events
              /\ IF p \in ExistingDirs
                 THEN cwd' = p /\ wrote = {}
                 ELSE /\ cwd' = cwd
                      /\ \E i \in wrote :
                            /\ added[i].res = "stderr"
                            /\ added[i].arg[2] = (IF p = w_priv THEN "EACCES" ELSE "ENOENT")
      ]_vars

\* In /tmp after an earlier cd, cd to a directory the shell may not enter
\* was refused.
C6_Witness ==
    /\ pc = "free"
    /\ FirstTokenIs(w_cd)
    /\ cwd = w_tmp
    /\ \E i \in 1..Len(events) : events[i] = Ev("chdir", "shell", w_priv, "EACCES")

\* The line csh_split_line was given, as a string.
TypedLine == CStr(typed, 0)

\* Where the maximal runs of non-delimiters of the string s start (1-based).
RunStarts(s) ==
    {i \in 1..Len(s) : s[i] \notin Delimiters /\ (i = 1 \/ s[i - 1] \in Delimiters)}

\* The maximal run of non-delimiters of s that starts at i.
RunAt(s, i) ==
    SubSeq(s, i, Min({j \in i..Len(s) : j = Len(s) \/ s[j + 1] \in Delimiters}))

\* C7: what csh_split_line returns is the maximal runs of non-delimiters of
\* its line, each once and from left to right, none of them empty, closed by
\* one NULL; ls -la /tmp gives ls, -la and /tmp; and there can be more
\* tokens than CSH_TOK_BUFSIZE.
C7_TokensAreTheMaximalRuns ==
    pc = "execute" =>
        LET s == TypedLine
            m == Len(args) - 1
        IN  /\ Len(args) >= 1
            /\ args[m + 1] = NULL
            /\ m = Cardinality(RunStarts(s))
            /\ \A k \in 1..m :
                  /\ args[k] # NULL
                  /\ args[k] + 1 \in RunStarts(s)
                  /\ k > 1 => args[k - 1] < args[k]
                  /\ CStr(line, args[k]) = RunAt(s, args[k] + 1)
                  /\ CStr(line, args[k]) # <<>>
            /\ s = ls_la_tmp => Argv(line, args) = <<w_ls, <<"-", "l", "a">>, w_tmp>>

\* A line of more than CSH_TOK_BUFSIZE tokens has been split.
C7_Witness ==
    /\ pc = "execute"
    /\ Len(args) - 1 > CSH_TOK_BUFSIZE
    /\ Cardinality(RunStarts(TypedLine)) = Len(args) - 1

\* No delimiter occurs in the string s.
NoDelimiter(s) == \A i \in 1..Len(s) : s[i] \notin Delimiters

\* C8, as stated: a line in which no delimiter occurs, the empty line
\* included, gives exactly one token and the NULL.
C8_AsStated ==
    (pc = "execute" /\ NoDelimiter(TypedLine)) =>
        (Len(args) = 2 /\ args[1] # NULL /\ args[2] = NULL)

\* C8, amended: a line that is not empty and in which no delimiter occurs
\* gives exactly one token, the whole line, and the NULL; the empty line
\* gives no token, only the NULL.
C8_OneTokenUnlessEmpty ==
    (pc = "execute" /\ NoDelimiter(TypedLine)) =>
        IF TypedLine = <<>>
        THEN args = <<NULL>>
        ELSE /\ Len(args) = 2
             /\ args[1] # NULL
             /\ args[2] = NULL
             /\ CStr(line, args[1]) = TypedLine

\* A line of two words typed without a delimiter between them has been split.
C8_Witness ==
    /\ pc = "execute"
    /\ TypedLine = w_cd \o w_tmp
    /\ Len(args) = 2

\* Every character of the string s is a delimiter (so is none, of the empty s).
OnlyDelimiters(s) == \A i \in 1..Len(s) : s[i] \in Delimiters

\* C9: an empty line and a line of delimiters only give a token vector
\* that starts with NULL, and dispatching such a vector returns 1 and
\* changes nothing else: no handler runs, no child is made, the working
\* directory stays, nothing is written.
C9_EmptyCommandIsANoOp ==
    /\ [](pc = "execute" /\ OnlyDelimiters(TypedLine) => args[1] = NULL)
    /\ [][ (pc = "execute" /\ args[1] = NULL) =>
              /\ status' = 1
              /\ pc' = "free"
              /\ UNCHANGED <<exitCode, cwd, children, pid, events, line, args, heap>>
          ]_vars

\* A line of delimiters only has been dispatched.
C9_Witness ==
    /\ pc = "free"
    /\ args = <<NULL>>
    /\ TypedLine # <<>>
    /\ OnlyDelimiters(TypedLine)
    /\ status = 1

\* C10, as stated: when the input ends after at least one character of a
\* line and before a newline, csh_read_line returns the partial line; so the
\* shell never ends inside csh_read_line, with exit code 0, holding
\* characters it has read and not dispatched.
C10_PartialLineIsReturned ==
    (pc = "exited" /\ exitCode = EXIT_SUCCESS /\ "line" \in heap /\ "args" \notin heap) =>
        position = 0

\* C11: when the input ends before any character of the current line has
\* been read, the shell process has ended at once with exit code 0: nothing
\* was tokenized, nothing dispatched, nothing written after the prompt, and
\* no child exists.
C11_EndOfInputOnAnEmptyLine ==
    (stdin.eof /\ position = 0) =>
        /\ pc = "exited"
        /\ exitCode = EXIT_SUCCESS
        /\ typed = <<>>
        /\ args = <<>>
        /\ events = <<Ev("write", "shell", <<"> ">>, "stdout")>>
        /\ \A p \in Pids : children[p] = NoChild

\* The input ended at the start of a line, after an earlier line changed the
\* working directory.
C11_Witness ==
    /\ stdin.eof
    /\ position = 0
    /\ pc = "exited"
    /\ line = <<>>
    /\ cwd = w_tmp

\* The first token is the name of a builtin.
FirstTokenIsBuiltin == FirstTokenIs(w_cd) \/ FirstTokenIs(w_help) \/ FirstTokenIs(w_exit)

\* The vector has a first token and it is not the name of a builtin, so that
\* csh_execute calls csh_launch.
IsExternalCommand == args # <<>> /\ args[1] # NULL /\ ~FirstTokenIsBuiltin

\* C12: csh_launch returns 1 in the shell on each of its paths: after a wait
\* result that says the child exited, after one that says it was killed by
\* a signal, and when fork fails; when fork fails it writes the error to
\* standard error and returns at once, with no child and no wait.
C12_LaunchReturnsOne ==
    [][ /\ (pc = "wait_check" /\ pc' = "free") =>
              /\ wstatus \in {"exited", "signaled"}
              /\ status' = 1
        /\ (pc = "execute" /\ IsExternalCommand /\ pc' # pc) =>
              \/ /\ pc' = "waitpid"
                 /\ Added(events, events') = <<Ev("fork", "shell", <<>>, "0")>>
              \/ /\ pc' = "free"
                 /\ status' = 1
                 /\ Added(events, events') =
                       <<Ev("fork", "shell", <<>>, "EAGAIN"),
                         Ev("write", "shell", <<"lsh", "EAGAIN">>, "stderr")>>
                 /\ UNCHANGED <<children, pid, wstatus, exitCode, cwd>>
      ]_vars

\* fork has failed for ls and csh_launch has returned 1 with no child made.
C12_Witness ==
    /\ pc = "free"
    /\ FirstTokenIs(w_ls)
    /\ status = 1
    /\ events[Len(events)] = Ev("write", "shell", <<"lsh", "EAGAIN">>, "stderr")
    /\ \A p \in Pids : children[p] = NoChild

\* What the child wrote to standard error when execvp failed for the file f.
ExecError(f) == Ev("write", "child", <<"lsh", execvp(f)>>, "stderr")

\* C13: a child that still runs the shell's code is only ever inside the
\* pid == 0 branch of csh_launch (at execvp, at perror, at exit, or ended):
\* it never gets back into the shell's loop. When it has exited, execvp had
\* failed, the error is on standard error and its exit code is EXIT_FAILURE,
\* which is not 0. The shell gets that exit from waitpid and csh_launch then
\* returns 1.
C13_ExecFailureEndsTheChild ==
    /\ [](\A p \in Pids :
             children[p].image = "shell" =>
                /\ children[p].cpc \in {"execvp", "perror", "exit", "done"}
                /\ children[p].state = "exited" =>
                      /\ execvp(children[p].file) # "0"
                      /\ children[p].code = EXIT_FAILURE
                      /\ children[p].code # 0
                      /\ events[Len(events)] = ExecError(children[p].file))
    /\ [][ /\ (pc = "waitpid" /\ pc' # pc /\ children[pid].state = "exited") =>
                 /\ pc' = "wait_check"
                 /\ wstatus' = "exited"
                 /\ children'[pid] = NoChild
           /\ (pc = "wait_check" /\ pc' # pc /\ wstatus = "exited") =>
                 /\ pc' = "free"
                 /\ status' = 1
         ]_vars

\* The shell has got the exit of a child for which execvp failed: /tmp is a
\* directory and cannot be executed.
C13_Witness ==
    /\ pc = "wait_check"
    /\ wstatus = "exited"
    /\ FirstTokenIs(w_tmp)
    /\ events[Len(events)] = ExecError(w_tmp)
    /\ execvp(w_tmp) = "EACCES"

\* The allocation error has been written at some point of the iteration.
AllocationErrorWritten ==
    \E i \in 1..Len(events) :
        events[i] = Ev("write", "shell", <<"lsh: allocation error">>, "stderr")

\* C14: once an allocation has failed, in csh_read_line or in
\* csh_split_line, at the first allocation or at a growth, the process has
\* ended with exit code EXIT_FAILURE, which is not 0, and the error is the
\* last thing it did: the line was not dispatched (no handler wrote, no child
\* was made, the working directory and status are as before). The shell ends
\* from the entry of csh_read_line or from inside csh_split_line in no other
\* way.
C14_AllocationFailureEndsTheShell ==
    /\ [](AllocationErrorWritten =>
             /\ pc = "exited"
             /\ exitCode = EXIT_FAILURE
             /\ exitCode # 0
             /\ events = <<Ev("write", "shell", <<"> ">>, "stdout"),
                           Ev("write", "shell", <<"lsh: allocation error">>, "stderr")>>
             /\ status = 1
             /\ \A p \in Pids : children[p] = NoChild)
    /\ [][ /\ (pc \in {"read_line", "split_line", "strtok"} /\ pc' = "exited") =>
                 /\ exitCode' = EXIT_FAILURE
                 /\ AllocationFailed(events')
           /\ (~AllocationFailed(events) /\ AllocationFailed(events')) =>
                 /\ pc \in {"read_line", "getchar", "split_line", "strtok"}
                 /\ pc' = "exited"
                 /\ UNCHANGED <<cwd, status, children>>
         ]_vars

\* The growth of the line buffer has failed, after CSH_RL_BUFSIZE characters.
C14_Witness ==
    /\ pc = "exited"
    /\ exitCode = EXIT_FAILURE
    /\ AllocationFailed(events)
    /\ position = CSH_RL_BUFSIZE
    /\ Len(line) = CSH_RL_BUFSIZE
    /\ "args" \notin heap

\* The numbers of the entries of the sequence ev that are a fork.
Forks(ev) == {i \in 1..Len(ev) : ev[i].op = "fork"}

\* C15: dispatching a vector with a first token does exactly one thing. When
\* the token is cd, help or exit, letter for letter, that builtin runs and
\* its result is the status (1 for cd and help, 0 for exit): cd calls chdir
\* or writes that the argument is missing, help writes its seven lines, exit
\* does nothing; no fork is made. For every other first token, also one that
\* differs from a builtin's name in case, or is a part of one, or goes on
\* after one, fork is called once, and the child it makes gets the whole
\* vector, token by token, with the first token as the file to run; no
\* builtin runs and the working directory stays.
C15_DispatchByExactName ==
    [][ (pc = "execute" /\ args[1] # NULL /\ pc' # pc) =>
          LET name  == CStr(line, args[1])
              added == Added(events, events')
          IN  IF name = <<"c", "d">>
              THEN /\ pc' = "free"
                   /\ status' = 1
                   /\ Forks(added) = {}
                   /\ children' = children
                   /\ Len(added) >= 1
                   /\ \/ added[1].op = "chdir"
                      \/ added = <<Ev("write", "shell", <<"lsh: cd: missing argument">>,
                                      "stderr")>>
              ELSE IF name = <<"h", "e", "l", "p">>
              THEN /\ pc' = "free"
                   /\ status' = 1
                   /\ Len(added) = 7
                   /\ \A i \in 1..7 : added[i].op = "write" /\ added[i].res = "stdout"
                   /\ UNCHANGED <<children, cwd>>
              ELSE IF name = <<"e", "x", "i", "t">>
              THEN /\ pc' = "free"
                   /\ status' = 0
                   /\ added = <<>>
                   /\ UNCHANGED <<children, cwd>>
              ELSE /\ Cardinality(Forks(added)) = 1
                   /\ added[1].op = "fork"
                   /\ \A i \in 2..Len(added) : added[i].op = "write" /\ added[i].res = "stderr"
                   /\ cwd' = cwd
                   /\ IF added[1].res = "0"
                      THEN /\ pc' = "waitpid"
                           /\ \E p \in Pids :
                                 /\ children[p] = NoChild
                                 /\ children'[p].state = "running"
                                 /\ children'[p].file = name
                                 /\ children'[p].argv =
                                       [k \in 1..(Len(args) - 1) |-> CStr(line, args[k])]
                                 /\ \A q \in Pids \ {p} : children'[q] = children[q]
                      ELSE /\ pc' = "free"
                           /\ status' = 1
                           /\ children' = children
      ]_vars

\* A child has been made for c, which is the start of cd and not a builtin,
\* with the argument it was typed with.
C15_Witness ==
    /\ pc = "waitpid"
    /\ FirstTokenIs(w_c)
    /\ \E p \in Pids : children[p].state = "running" /\ children[p].argv = <<w_c, w_tmp>>

\* C16: the line buffer and the token array of an iteration are both held
\* from their allocation until csh_execute has returned, also all through
\* the wait for a child; they are freed in one place, the end of the loop
\* body, where both are held (so each is freed once, and freed only there);
\* when the line buffer is not held no token into it is left; and nothing is
\* held at the prompt or at the entry of csh_read_line, where the next
\* buffer is allocated. An iteration that ends the process from inside
\* csh_read_line or csh_split_line frees nothing.
C16_BuffersFreedOnceAfterDispatch ==
    /\ [](/\ pc \in {"getchar", "split_line"} => heap = {"line"}
          /\ pc \in {"strtok", "execute", "waitpid", "wait_check", "free"} =>
                heap = {"line", "args"}
          /\ pc \in {"prompt", "read_line"} => heap = {}
          /\ (pc = "exited" /\ status = 0) => heap = {}
          /\ "line" \notin heap => (args = <<>> /\ line = <<>>)
          /\ "args" \notin heap => args = <<>>)
    /\ [][ /\ heap' # heap /\ heap' \subseteq heap =>
                 /\ pc = "free"
                 /\ heap = {"line", "args"}
                 /\ heap' = {}
                 /\ args' = <<>>
           /\ "line" \in heap' \ heap => (pc = "read_line" /\ heap = {})
           /\ "args" \in heap' \ heap => (pc = "split_line" /\ heap = {"line"})
           /\ pc = "free" => pc' # "free"
         ]_vars

\* The loop is back at its prompt with nothing held, after an iteration that
\* waited for a child.
C16_Witness ==
    /\ pc = "prompt"
    /\ heap = {}
    /\ args = <<>>
    /\ \E i \in 1..Len(events) : events[i].op = "fork" /\ events[i].res = "0"

\* C17: the working directory of the shell changes only in the dispatch of
\* cd with an argument that chdir accepts, and it then is that argument; no
\* other step changes it: not help, exit or an empty command, not a fork that
\* works or fails, not anything a child does, execvp failing included. A
\* child starts in the working directory the shell has when it forks.
C17_OnlyCdChangesTheDirectory ==
    [][ /\ cwd' # cwd =>
              /\ pc = "execute"
              /\ FirstTokenIs(<<"c", "d">>)
              /\ args[2] # NULL
              /\ cwd' = CStr(line, args[2])
              /\ cwd' \in ExistingDirs
              /\ events' = Append(events, Ev("chdir", "shell", cwd', "0"))
        /\ (pc = "execute" /\ ~(FirstTokenIs(<<"c", "d">>) /\ args[2] # NULL)) => cwd' = cwd
        /\ pc \in {"waitpid", "wait_check", "free"} => cwd' = cwd
        /\ \A p \in Pids :
              /\ (children[p].state = "none" /\ children'[p].state # "none") =>
                    /\ children'[p].cwd = cwd
                    /\ cwd' = cwd
              /\ (children[p].state # "none" /\ children'[p].state # "none") =>
                    children'[p].cwd = children[p].cwd
      ]_vars

\* After cd /tmp, a child runs in /tmp, and the shell is still there.
C17_Witness ==
    /\ pc = "waitpid"
    /\ cwd = w_tmp
    /\ \E p \in Pids :
          /\ children[p].state = "running"
          /\ children[p].image = "prog"
          /\ children[p].cwd = w_tmp

\* C18: dispatching cd p x1 .. xk, with one or more tokens after p, does
\* what dispatching cd p does from the same working directory: the same
\* status (1), the same working directory afterwards, the same call of chdir
\* and the same error on standard error or none; nothing is written about
\* the tokens after p.
C18_CdIgnoresFurtherArguments ==
    [][ (pc = "execute" /\ FirstTokenIs(<<"c", "d">>) /\ Len(args) > 3 /\ pc' # pc) =>
          LET p     == CStr(line, args[2])
              alone == csh_cd(line, <<args[1], args[2], NULL>>, cwd)
              added == Added(events, events')
          IN  /\ pc' = "free"
              /\ status' = 1
              /\ status' = alone.ret
              /\ cwd' = alone.cwd
              /\ added = alone.ev
              /\ added[1].op = "chdir" /\ added[1].arg = p
              /\ IF p \in ExistingDirs
                 THEN cwd' = p /\ Len(added) = 1
                 ELSE /\ cwd' = cwd
                      /\ Len(added) = 2
                      /\ added[2] = Ev("write", "shell", <<"lsh", added[1].res>>, "stderr")
      ]_vars

\* cd /tmp with a further argument has been dispatched from the root
\* directory, and the shell is in /tmp.
C18_Witness ==
    /\ pc = "free"
    /\ FirstTokenIs(w_cd)
    /\ Len(args) > 3
    /\ CStr(line, args[2]) = w_tmp
    /\ cwd = w_tmp
    /\ events = <<Ev("write", "shell", <<"> ">>, "stdout"), Ev("chdir", "shell", w_tmp, "0")>>

\* The shell is inside csh_launch and the child it waits for has ended:
\* it is a zombie, or waitpid has just reported its end.
ChildHasEnded ==
    /\ InLaunch
    /\ \/ children[pid].state \in {"exited", "signaled"}
       \/ pc = "wait_check" /\ wstatus \in {"exited", "signaled"}

\* C19: when the shell gets to run, a child that has exited or been killed,
\* however often it was stopped and continued before, leads to csh_launch
\* returning and to the next prompt; and as long as the child is running or
\* stopped, no step takes the shell out of csh_launch.
C19_LaunchReturnsWhenTheChildEnds ==
    /\ ChildHasEnded ~> (pc = "prompt")
    /\ [][ (InLaunch /\ children[pid].state \in {"running", "stopped"}) =>
              /\ pc' \in {"waitpid", "wait_check"}
              /\ pid' = pid
              /\ status' = status
         ]_vars

\* The child was stopped, which waitpid reported, and has been killed since;
\* the shell is about to wait again.
C19_Witness ==
    /\ pc = "waitpid"
    /\ wstatus = "stopped"
    /\ children[pid].state = "signaled"

\* C20: every write into the line buffer (a character, or the closing NUL)
\* and every write into the token array (a token, or the closing NULL) goes
\* to the index position with 0 <= position < bufsize, and fills the next
\* free element; between the writes position stays below bufsize, and
\* bufsize is a multiple of the growth step. This holds for a line of exactly
\* CSH_RL_BUFSIZE characters and for exactly CSH_TOK_BUFSIZE tokens, and
\* beyond.
C20_WritesStayInsideTheBuffers ==
    /\ [](/\ pc = "getchar" =>
                /\ position = Len(line)
                /\ 0 <= position /\ position < bufsize
                /\ bufsize % 1024 = 0
          /\ pc = "strtok" =>
                /\ position = Len(args)
                /\ 0 <= position /\ position < bufsize
                /\ bufsize % 64 = 0)
    /\ [][ /\ (pc = "getchar" /\ line' # line) =>
                 /\ 0 <= position /\ position < bufsize
                 /\ Len(line') = position + 1
                 /\ \A i \in 1..position : line'[i] = line[i]
           /\ (pc = "strtok" /\ args' # args) =>
                 /\ 0 <= position /\ position < bufsize
                 /\ Len(args') = position + 1
                 /\ \A i \in 1..position : args'[i] = args[i]
         ]_vars

\* A line of exactly CSH_RL_BUFSIZE characters has been read: the buffer has
\* grown once and the closing NUL is at index CSH_RL_BUFSIZE.
C20_Witness ==
    /\ pc = "split_line"
    /\ Len(line) = 1024 + 1
    /\ line[1024 + 1] = NUL
    /\ position = 1024
    /\ bufsize = 2 * 1024

====
